---- MODULE Spec2Model ----
(***************************************************************************)
(* Model of the canvas image viewer of Caption Studio                      *)
(* (composables/useCanvasImageViewer.ts) together with the part of its     *)
(* host (the preview template) that decides when the canvas exists.        *)
(*                                                                         *)
(* Numbers that are JavaScript floats in the source are exact rationals    *)
(* here: a rational is a pair <<n, d>> with d > 0 in lowest terms.         *)
(***************************************************************************)
EXTENDS Integers, Sequences, FiniteSets, TLC

\* ------------------------------------------------------------------------
\* Exact rational arithmetic (the source computes in IEEE doubles)
\* ------------------------------------------------------------------------
Abs(n) == IF n < 0 THEN -n ELSE n

RECURSIVE Gcd(_, _)
Gcd(a, b) == IF b = 0 THEN a ELSE Gcd(b, a % b)

Q(n, d) ==
    LET s == IF d < 0 THEN -1 ELSE 1
        g == Gcd(Abs(n), Abs(d))
    IN  IF n = 0 THEN <<0, 1>> ELSE <<(s * n) \div g, (s * d) \div g>>

I(n) == <<n, 1>>
\* sums over the least common denominator and products with cross
\* cancellation keep the intermediate integers small
Add(a, b) ==
    LET g == Gcd(a[2], b[2])
    IN  Q(a[1] * (b[2] \div g) + b[1] * (a[2] \div g), (a[2] \div g) * b[2])
Sub(a, b) == Add(a, <<-b[1], b[2]>>)
Mul(a, b) ==
    LET g1 == Gcd(Abs(a[1]), b[2])
        g2 == Gcd(Abs(b[1]), a[2])
    IN  Q((a[1] \div g1) * (b[1] \div g2), (a[2] \div g2) * (b[2] \div g1))
Div(a, b) == Mul(a, IF b[1] < 0 THEN <<-b[2], -b[1]>> ELSE <<b[2], b[1]>>)
Neg(a) == <<-a[1], a[2]>>
Leq(a, b) == Sub(a, b)[1] <= 0
Lt(a, b) == Sub(a, b)[1] < 0
MathMax(a, b) == IF Lt(a, b) THEN b ELSE a
MathMin(a, b) == IF Lt(b, a) THEN b ELSE a
AbsQ(a) == <<Abs(a[1]), a[2]>>
Zero == I(0)
One == I(1)
Two == I(2)

\* ------------------------------------------------------------------------
\* Bounds of the exploration and environment inputs
\* ------------------------------------------------------------------------
\* inputs per behaviour of Spec (whole lifecycle, every input)
MaxWheel == 1                \* wheel events
MaxPointer == 1              \* mouse button / move events
MaxMedia == 1                \* changes of the current item
MaxResize == 1               \* changes of the container size
\* inputs per behaviour of SpecView (mounted viewer, container size fixed)
ViewWheel == 2
ViewPointer == 2
ViewMedia == 2
\* inputs per behaviour of SpecBrowse (same viewer, more items browsed)
BrowseWheel == 1
BrowsePointer == 1
BrowseMedia == 3
\* inputs per behaviour of SpecDrag (same viewer, longer pointer sequences)
DragWheel == 1
DragPointer == 4
DragMedia == 1
LayoutWheel == 1
LayoutPointer == 1
LayoutMedia == 2
LayoutResize == 1
RenderWheel == 1
RenderMedia == 2
StepWheel == 1                \* wheel events applied to each starting zoom
DevicePixelRatio == 2        \* window.devicePixelRatio of the display
ZoomWheel == 2                \* wheel events on the DOM viewer
ZoomPointer == 3              \* mouse button / move / leave events on the DOM viewer
ZoomImage == 1                \* changes of the image shown by the DOM viewer
MaxFiles == 2
MaxEdit == 3
MaxSave == 2
MaxBatchItems == 3           \* longest selection handed to batchGenerate
MaxBatches == 2              \* batchGenerate calls
MaxImages == 3               \* longest item list handed to the caption store

\* The current item is an image or not; a video and "no item" take the same
\* branch of the watcher and of the template, so one value stands for both.
Video == "V"                 \* mediaType 'video', or currentImage === null
Images == {"A", "B"}         \* items with mediaType 'image'
Media == Images \cup {Video}
NoImage == "null"            \* loadedImage.value === null

\* ids of the items a folder scan can hand to the store, and the lists of them
ItemIds == {"a", "b", "c"}
ImageLists == UNION {[1..n -> ItemIds] : n \in 0..MaxImages}
\* arguments of setCurrentIndex, in and out of range
Indices == -2..(MaxImages + 1)

\* useImageZoom right after creation, showing a 400x300 image: zoom 1,
\* transform origin 'center center', no pan, no drag
NoZoom == [zoom |-> I(1), origin |-> <<I(50), I(50)>>,
           panX |-> I(0), panY |-> I(0),
           isDragging |-> FALSE, dragStart |-> [x |-> I(0), y |-> I(0)],
           natural |-> <<400, 300>>,
           nWheel |-> 0, nPointer |-> 0, nImage |-> 0]

\* the store and the disk before a folder is opened
NoFiles == [caps |-> <<>>, pc |-> "idle", updates |-> <<>>, isSaving |-> FALSE,
            during |-> {}, nEdit |-> 0, nSave |-> 0]

\* selections handed to batchGenerate, as the media types of their items
MediaTypes == {"image", "video"}
Selections == UNION {[1..n -> MediaTypes] : n \in 0..MaxBatchItems}

\* useBatchCaptioning before the first batch: progress, the store's
\* isBatchGenerating, and where batchGenerate stands ("idle": not running,
\* "capture": awaiting captureFrame, "generate": awaiting generateFn);
\* i is the loop index, calls the items generateFn was invoked for,
\* cancelAt the loop index at the time of cancel()
NoBatch == [pc |-> "idle", items |-> <<>>, i |-> 0,
            isActive |-> FALSE, current |-> 0, total |-> 0, cancelled |-> FALSE,
            isBatchGenerating |-> FALSE, calls |-> <<>>, cancelAt |-> -1,
            nBatch |-> 0]

\* naturalWidth / naturalHeight of the decoded bitmaps
NaturalSize(img) ==
    CASE img = "A" -> <<400, 300>>
      [] img = "B" -> <<400, 800>>
      [] img = "C" -> <<300, 300>>
      [] img = "D" -> <<640, 480>>
      [] img = "E" -> <<3, 1000>>
      [] img = "F" -> <<1000, 7>>

\* every bitmap calculateImageFit is applied to in SpecFit
Bitmaps == {"A", "B", "C", "D", "E", "F"}

\* clientWidth / clientHeight the container can be laid out with
Sizes == {<<0, 0>>, <<200, 0>>, <<200, 200>>, <<100, 100>>}
NonZeroSizes == {sz \in Sizes : sz[1] # 0 /\ sz[2] # 0}

\* non-zero container sizes calculateImageFit is applied to in SpecFit
FitSides == {1, 75, 150, 200, 300, 640}
FitSizes == FitSides \X FitSides

\* wheel deltas of several magnitudes (one pixel, one notch, a fast fling)
WheelDeltas == {-9900, -100, -1, 0, 1, 100, 9900}
\* zoom levels a wheel event can find
WheelZooms == {Q(1, 10), Q(1, 2), I(1), I(2), I(3), I(5), Q(199, 20), I(10)}

\* pointer positions inside a container of the given size (client coords)
Points(sz) == {<<sz[1] \div 4, sz[2] \div 4>>, <<(3 * sz[1]) \div 4, sz[2] \div 2>>}

\* WheelEvent.deltaY values
DeltaYs == {-9900, 9900}

\* canvas.getBoundingClientRect() origin
RectLeft == 0
RectTop == 0

\* a canvas element as the browser creates it: 300x150 buffer, identity ctx
FreshCanvas == [width |-> 300, height |-> 150, scale |-> 1]
Blank == [img |-> NoImage]

\* ------------------------------------------------------------------------
\* Program constants
\* ------------------------------------------------------------------------
MIN_ZOOM == Q(1, 10)
MAX_ZOOM == I(10)
WheelFactor == Q(1, 1000)
FitZoom == One

ZeroFit == [x |-> Zero, y |-> Zero, width |-> Zero, height |-> Zero, scale |-> One]
ZeroDrag == [x |-> 0, y |-> 0, panX |-> Zero, panY |-> Zero]

VARIABLES
    phase,               \* "mounted" | "unmounted" (component lifecycle)
    pc,                  \* position inside one reactive flush, "idle" between
    media,               \* options.currentImage
    size,                \* container clientWidth x clientHeight
    refs,                \* canvasRef and containerRef are both non-null
    canvas,              \* pixel buffer and context scale of the canvas
    drawn,               \* what the canvas currently shows
    isInitialized,
    isCanvasInitialized,
    observing,           \* "none" | "current" | "stale": element the observer watches
    roPending,           \* a ResizeObserver notification is queued
    zoom, panX, panY,
    isDragging, dragStart,
    isLoading, loadedImage, imageFit,
    renderRequested,
    frames,              \* animation-frame callbacks queued
    loads,               \* decodes started by loadImage, with promise state
    nWheel, nPointer, nMedia, nResize,  \* inputs consumed so far
    images, currentIndex, \* caption store: the item list and the current index
    batch,               \* useBatchCaptioning: progress, store flag, loop position
    iz,                  \* useImageZoom: zoom, pan and drag of the DOM viewer
    files                \* captions in the store and on disk, and the save in flight

vars == <<phase, pc, media, size, refs, canvas, drawn, isInitialized,
          isCanvasInitialized, observing, roPending, zoom, panX, panY,
          isDragging, dragStart, isLoading, loadedImage, imageFit,
          renderRequested, frames, loads, nWheel, nPointer, nMedia, nResize,
          images, currentIndex, batch, iz, files>>

\* everything but the caption store
viewerVars == <<phase, pc, media, size, refs, canvas, drawn, isInitialized,
                isCanvasInitialized, observing, roPending, zoom, panX, panY,
                isDragging, dragStart, isLoading, loadedImage, imageFit,
                renderRequested, frames, loads, nWheel, nPointer, nMedia,
                nResize>>

\* the composable's state and the DOM objects it touches, as one record
Cur == [media |-> media, size |-> size, refs |-> refs, canvas |-> canvas,
        drawn |-> drawn, isInitialized |-> isInitialized,
        isCanvasInitialized |-> isCanvasInitialized, observing |-> observing,
        roPending |-> roPending, zoom |-> zoom, panX |-> panX, panY |-> panY,
        isDragging |-> isDragging, dragStart |-> dragStart,
        isLoading |-> isLoading, loadedImage |-> loadedImage,
        imageFit |-> imageFit, renderRequested |-> renderRequested,
        frames |-> frames, loads |-> loads]

Commit(s) ==
    /\ media' = s.media /\ size' = s.size /\ refs' = s.refs
    /\ canvas' = s.canvas /\ drawn' = s.drawn
    /\ isInitialized' = s.isInitialized
    /\ isCanvasInitialized' = s.isCanvasInitialized
    /\ observing' = s.observing /\ roPending' = s.roPending
    /\ zoom' = s.zoom /\ panX' = s.panX /\ panY' = s.panY
    /\ isDragging' = s.isDragging /\ dragStart' = s.dragStart
    /\ isLoading' = s.isLoading /\ loadedImage' = s.loadedImage
    /\ imageFit' = s.imageFit /\ renderRequested' = s.renderRequested
    /\ frames' = s.frames /\ loads' = s.loads
    /\ UNCHANGED <<images, currentIndex, batch, iz, files>>

\* ------------------------------------------------------------------------
\* The composable's functions, each as a function of the state record
\* ------------------------------------------------------------------------

\* calculateImageFit that covers the viewport (object-fit: cover): the
\* comparison of the two ratios is inverted
calculateImageFitCover(s) ==
    IF s.loadedImage = NoImage \/ ~s.refs THEN s
    ELSE
      LET viewportWidth == I(s.size[1])
          viewportHeight == I(s.size[2])
          nat == NaturalSize(s.loadedImage)
          imageRatio == Q(nat[1], nat[2])
          wider == IF s.size[2] = 0 THEN FALSE
                   ELSE Lt(imageRatio, Div(viewportWidth, viewportHeight))
          fitWidth == IF wider THEN viewportWidth ELSE Mul(viewportHeight, imageRatio)
          fitHeight == IF wider THEN Div(viewportWidth, imageRatio) ELSE viewportHeight
          scale == IF wider THEN Div(fitWidth, I(nat[1])) ELSE Div(fitHeight, I(nat[2]))
          fitX == Div(Sub(viewportWidth, fitWidth), Two)
          fitY == Div(Sub(viewportHeight, fitHeight), Two)
      IN  [s EXCEPT !.imageFit = [x |-> fitX, y |-> fitY, width |-> fitWidth,
                                  height |-> fitHeight, scale |-> scale]]

\* calculateImageFit: object-fit: contain.  A zero clientHeight makes
\* viewportRatio NaN or Infinity, and "imageRatio > viewportRatio" false.
calculateImageFit(s) ==
    IF s.loadedImage = NoImage \/ ~s.refs THEN s
    ELSE
      LET viewportWidth == I(s.size[1])
          viewportHeight == I(s.size[2])
          nat == NaturalSize(s.loadedImage)
          imageRatio == Q(nat[1], nat[2])
          wider == IF s.size[2] = 0 THEN FALSE
                   ELSE Lt(Div(viewportWidth, viewportHeight), imageRatio)
          fitWidth == IF wider THEN viewportWidth ELSE Mul(viewportHeight, imageRatio)
          fitHeight == IF wider THEN Div(viewportWidth, imageRatio) ELSE viewportHeight
          scale == IF wider THEN Div(fitWidth, I(nat[1])) ELSE Div(fitHeight, I(nat[2]))
          fitX == Div(Sub(viewportWidth, fitWidth), Two)
          fitY == Div(Sub(viewportHeight, fitHeight), Two)
      IN  [s EXCEPT !.imageFit = [x |-> fitX, y |-> fitY, width |-> fitWidth,
                                  height |-> fitHeight, scale |-> scale]]

\* render: draws the whole bitmap into the zoomed, panned destination rect
render(s) ==
    IF ~s.refs \/ s.loadedImage = NoImage THEN s
    ELSE
      LET fit == s.imageFit
          zoomedWidth == Mul(fit.width, s.zoom)
          zoomedHeight == Mul(fit.height, s.zoom)
          x == Add(Add(fit.x, s.panX), Div(Sub(fit.width, zoomedWidth), Two))
          y == Add(Add(fit.y, s.panY), Div(Sub(fit.height, zoomedHeight), Two))
      IN  [s EXCEPT !.drawn = [img |-> s.loadedImage, x |-> x, y |-> y,
                               width |-> zoomedWidth, height |-> zoomedHeight]]

\* requestRender without the de-duplication test
requestRenderEveryCall(s) ==
    [s EXCEPT !.renderRequested = TRUE, !.frames = @ + 1]

requestRender(s) ==
    IF s.renderRequested THEN s
    ELSE [s EXCEPT !.renderRequested = TRUE, !.frames = @ + 1]

\* the clamp of constrainPan for one axis
Clamp(p, maxPan) == MathMax(Neg(maxPan), MathMin(maxPan, p))

\* constrainPan allowing the whole overflow instead of half of it
constrainPanWholeOverflow(s) ==
    IF ~s.refs \/ s.loadedImage = NoImage THEN s
    ELSE
      LET fit == s.imageFit
          maxPanX == MathMax(Zero, Sub(Mul(fit.width, s.zoom), I(s.size[1])))
          maxPanY == MathMax(Zero, Sub(Mul(fit.height, s.zoom), I(s.size[2])))
      IN  [s EXCEPT !.panX = Clamp(s.panX, maxPanX),
                    !.panY = Clamp(s.panY, maxPanY)]

constrainPan(s) ==
    IF ~s.refs \/ s.loadedImage = NoImage THEN s
    ELSE
      LET fit == s.imageFit
          zoomedWidth == Mul(fit.width, s.zoom)
          zoomedHeight == Mul(fit.height, s.zoom)
          overflowX == MathMax(Zero, Sub(zoomedWidth, I(s.size[1])))
          overflowY == MathMax(Zero, Sub(zoomedHeight, I(s.size[2])))
          maxPanX == Div(overflowX, Two)
          maxPanY == Div(overflowY, Two)
      IN  [s EXCEPT !.panX = Clamp(s.panX, maxPanX),
                    !.panY = Clamp(s.panY, maxPanY)]

\* NewZoom with the Math.min against MAX_ZOOM left out
NewZoomNoMax(z, deltaY) ==
    LET delta == Mul(I(-deltaY), WheelFactor)
    IN  MathMax(MIN_ZOOM, Add(z, delta))

\* NewZoom with a step of one tenth in the direction of the wheel
NewZoomFixedStep(z, deltaY) ==
    LET delta == IF deltaY < 0 THEN Q(1, 10)
                 ELSE IF deltaY > 0 THEN Q(-1, 10) ELSE Zero
    IN  MathMax(MIN_ZOOM, MathMin(MAX_ZOOM, Add(z, delta)))

\* "Calculate new zoom" of handleWheel
NewZoom(z, deltaY) ==
    LET delta == Mul(I(-deltaY), WheelFactor)
    IN  MathMax(MIN_ZOOM, MathMin(MAX_ZOOM, Add(z, delta)))

\* "Adjust pan to keep mouse position fixed" of handleWheel, one axis:
\* m mouse coordinate, fpos/fsize the fit origin/extent on that axis
WheelPan(m, fpos, fsize, scale, pan, oldZoom, newZoom) ==
    LET image == Div(Sub(Sub(Sub(m, fpos), pan),
                         Div(Sub(fsize, Mul(fsize, oldZoom)), Two)), oldZoom)
    IN  Sub(Sub(Sub(m, fpos), Mul(Mul(image, scale), newZoom)),
            Div(Sub(fsize, Mul(fsize, newZoom)), Two))

handleWheel(s, clientX, clientY, deltaY) ==
    IF ~s.refs \/ s.loadedImage = NoImage THEN s
    ELSE
      LET mouseX == I(clientX - RectLeft)
          mouseY == I(clientY - RectTop)
          fit == s.imageFit
          oldZoom == s.zoom
          newZoom == NewZoom(s.zoom, deltaY)
          s1 == [s EXCEPT !.zoom = newZoom]
          s2 == IF newZoom # oldZoom
                THEN [s1 EXCEPT
                        !.panX = WheelPan(mouseX, fit.x, fit.width, fit.scale,
                                          s.panX, oldZoom, newZoom),
                        !.panY = WheelPan(mouseY, fit.y, fit.height, fit.scale,
                                          s.panY, oldZoom, newZoom)]
                ELSE s1
      IN  requestRender(constrainPan(s2))

\* handleMouseDown without the "only when zoomed" test
handleMouseDownAnyZoom(s, clientX, clientY) ==
    [s EXCEPT !.isDragging = TRUE,
              !.dragStart = [x |-> clientX, y |-> clientY,
                             panX |-> s.panX, panY |-> s.panY]]

handleMouseDown(s, clientX, clientY) ==
    IF Leq(s.zoom, FitZoom) THEN s
    ELSE [s EXCEPT !.isDragging = TRUE,
                   !.dragStart = [x |-> clientX, y |-> clientY,
                                  panX |-> s.panX, panY |-> s.panY]]

handleMouseMove(s, clientX, clientY) ==
    IF ~s.isDragging THEN s
    ELSE
      LET deltaX == clientX - s.dragStart.x
          deltaY == clientY - s.dragStart.y
          s1 == [s EXCEPT !.panX = Add(s.dragStart.panX, I(deltaX)),
                          !.panY = Add(s.dragStart.panY, I(deltaY))]
      IN  requestRender(constrainPan(s1))

\* handleMouseUp that leaves the drag running
handleMouseUpKeepsDrag(s) == s

handleMouseUp(s) == [s EXCEPT !.isDragging = FALSE]

\* resetView that resets the zoom and leaves the pan where it was
resetViewKeepsPan(s) ==
    requestRender(calculateImageFit([s EXCEPT !.zoom = FitZoom]))

resetView(s) ==
    requestRender(calculateImageFit(
        [s EXCEPT !.zoom = FitZoom, !.panX = Zero, !.panY = Zero]))

\* handleResize without the "container must have size" test
handleResizeAnySize(s) ==
    IF ~s.refs THEN s
    ELSE
      LET dpr == DevicePixelRatio
          s1 == [s EXCEPT !.canvas = [width |-> s.size[1] * dpr,
                                      height |-> s.size[2] * dpr,
                                      scale |-> dpr],
                          !.drawn = Blank]
      IN  requestRender(calculateImageFit(s1))

\* handleResize: assigning canvas.width/height clears the canvas and resets
\* the context; the transform is then set to the device pixel ratio
handleResize(s) ==
    IF ~s.refs THEN s
    ELSE IF s.size[1] = 0 \/ s.size[2] = 0 THEN s
    ELSE
      LET dpr == DevicePixelRatio
          s1 == [s EXCEPT !.canvas = [width |-> s.size[1] * dpr,
                                      height |-> s.size[2] * dpr,
                                      scale |-> dpr],
                          !.drawn = Blank]
      IN  requestRender(calculateImageFit(s1))

\* loadImage without the isInitialized guard
loadImageUnguarded(s, imagePath) ==
    [s EXCEPT !.isLoading = TRUE,
              !.loads = Append(@, [path |-> imagePath, state |-> "pending"])]

\* loadImage up to the point where the decode is started
loadImage(s, imagePath) ==
    IF ~s.isInitialized THEN s
    ELSE [s EXCEPT !.isLoading = TRUE,
                   !.loads = Append(@, [path |-> imagePath, state |-> "pending"])]

\* img.onload that sizes the canvas but does not reset the view
onloadNoReset(s, i) ==
    LET s1 == [s EXCEPT !.loadedImage = s.loads[i].path, !.isLoading = FALSE]
        s2 == requestRender(calculateImageFit(handleResize(s1)))
    IN  [s2 EXCEPT !.loads[i].state = "resolved"]

\* img.onload of the i-th decode
onload(s, i) ==
    LET s1 == [s EXCEPT !.loadedImage = s.loads[i].path, !.isLoading = FALSE]
        s2 == resetView(handleResize(s1))
    IN  [s2 EXCEPT !.loads[i].state = "resolved"]

\* img.onerror that also drops the image on display
onerrorDropsImage(s, i) ==
    [s EXCEPT !.isLoading = FALSE, !.loadedImage = NoImage,
              !.loads[i].state = "rejected"]

\* img.onerror of the i-th decode
onerror(s, i) ==
    [s EXCEPT !.isLoading = FALSE, !.loads[i].state = "rejected"]

\* callback of watch(currentImage)
watchCurrentImage(s) ==
    IF s.media \in Images THEN loadImage(s, s.media)
    ELSE LET s1 == [s EXCEPT !.loadedImage = NoImage]
         IN  IF s.refs THEN requestRender(s1) ELSE s1

\* body of the initialising watchEffect
watchEffectInit(s) ==
    IF ~s.refs THEN s
    ELSE IF s.isCanvasInitialized THEN s
    ELSE
      LET s1 == handleResize([s EXCEPT !.isCanvasInitialized = TRUE])
          s2 == [s1 EXCEPT !.isInitialized = TRUE,
                           !.observing = "current", !.roPending = TRUE]
      IN  IF s.media \in Images THEN loadImage(s2, s.media) ELSE s2

\* onUnmounted hook (the template refs are already null when it runs)
onUnmounted(s) ==
    [s EXCEPT !.isInitialized = FALSE, !.observing = "none", !.roPending = FALSE]

\* the preview template: the canvas and its container exist exactly while
\* the current item is an image (v-if / v-else-if / v-else)
patchTemplate(s) ==
    LET show == s.media \in Images
    IN  IF show = s.refs THEN s
        ELSE IF show
        THEN [s EXCEPT !.refs = TRUE, !.canvas = FreshCanvas, !.drawn = Blank]
        ELSE [s EXCEPT !.refs = FALSE, !.canvas = FreshCanvas, !.drawn = Blank,
                       !.observing = IF @ = "current" THEN "stale" ELSE @,
                       !.roPending = (@ \/ s.observing = "current")]

\* ------------------------------------------------------------------------
\* Initial state: useCanvasImageViewer() has returned, the component is
\* about to render for the first time
\* ------------------------------------------------------------------------
Init ==
    /\ phase = "mounted" /\ pc = "patch"
    /\ media \in Media /\ size \in Sizes
    /\ refs = FALSE /\ canvas = FreshCanvas /\ drawn = Blank
    /\ isInitialized = FALSE /\ isCanvasInitialized = FALSE
    /\ observing = "none" /\ roPending = FALSE
    /\ zoom = One /\ panX = Zero /\ panY = Zero
    /\ isDragging = FALSE /\ dragStart = ZeroDrag
    /\ isLoading = FALSE /\ loadedImage = NoImage /\ imageFit = ZeroFit
    /\ renderRequested = FALSE /\ frames = 0
    /\ loads = <<>>
    /\ nWheel = 0 /\ nPointer = 0 /\ nMedia = 0 /\ nResize = 0
    /\ images = <<>> /\ currentIndex = 0
    /\ batch = NoBatch /\ iz = NoZoom /\ files = NoFiles

\* ------------------------------------------------------------------------
\* Actions
\* ------------------------------------------------------------------------

\* one input of the user or the host is consumed
WheelInput ==
    /\ nWheel' = nWheel + 1
    /\ UNCHANGED <<nPointer, nMedia, nResize>>

PointerInput ==
    /\ nPointer' = nPointer + 1
    /\ UNCHANGED <<nWheel, nMedia, nResize>>

MediaInput ==
    /\ nMedia' = nMedia + 1
    /\ UNCHANGED <<nWheel, nPointer, nResize>>

ResizeInput ==
    /\ nResize' = nResize + 1
    /\ UNCHANGED <<nWheel, nPointer, nMedia>>

Internal == UNCHANGED <<nWheel, nPointer, nMedia, nResize>>

\* the container is on screen and can receive pointer events
PointerOk ==
    /\ phase = "mounted" /\ pc = "idle"
    /\ refs /\ size[1] # 0 /\ size[2] # 0

Wheel(pt, deltaY) ==
    /\ PointerOk
    /\ WheelInput
    /\ Commit(handleWheel(Cur, pt[1], pt[2], deltaY))
    /\ UNCHANGED <<phase, pc>>

MouseDown(pt) ==
    /\ PointerOk
    /\ PointerInput
    /\ Commit(handleMouseDown(Cur, pt[1], pt[2]))
    /\ UNCHANGED <<phase, pc>>

MouseMove(pt) ==
    /\ PointerOk
    /\ PointerInput
    /\ Commit(handleMouseMove(Cur, pt[1], pt[2]))
    /\ UNCHANGED <<phase, pc>>

\* mouseup on the container, or on the window once the listener is added
MouseUp ==
    /\ phase = "mounted" /\ pc = "idle"
    /\ PointerOk \/ isCanvasInitialized
    /\ PointerInput
    /\ Commit(handleMouseUp(Cur))
    /\ UNCHANGED <<phase, pc>>

\* the pointer leaves the container: the template binds no handler to
\* mouseleave, so the event reaches none of the composable's functions
MouseLeave ==
    /\ PointerOk
    /\ PointerInput
    /\ Commit(Cur)
    /\ UNCHANGED <<phase, pc>>

\* click on the zoom indicator, which the host shows while zoom > 1.01
ResetClick ==
    /\ PointerOk
    /\ Lt(Q(101, 100), zoom)
    /\ PointerInput
    /\ Commit(resetView(Cur))
    /\ UNCHANGED <<phase, pc>>

DecodeLoaded(i) ==
    /\ pc = "idle"
    /\ loads[i].state = "pending"
    /\ Internal
    /\ Commit(onload(Cur, i))
    /\ UNCHANGED <<phase, pc>>

DecodeFailed(i) ==
    /\ pc = "idle"
    /\ loads[i].state = "pending"
    /\ Internal
    /\ Commit(onerror(Cur, i))
    /\ UNCHANGED <<phase, pc>>

\* the animation-frame callback without "renderRequested = false"
AnimationFrameKeepsFlag ==
    /\ pc = "idle"
    /\ frames > 0
    /\ Internal
    /\ Commit([render(Cur) EXCEPT !.frames = @ - 1])
    /\ UNCHANGED <<phase, pc>>

\* the callback requestRender handed to requestAnimationFrame
AnimationFrame ==
    /\ pc = "idle"
    /\ frames > 0
    /\ Internal
    /\ Commit([render(Cur) EXCEPT !.renderRequested = FALSE, !.frames = @ - 1])
    /\ UNCHANGED <<phase, pc>>

\* the layout gives the container another size
ContainerResized(sz) ==
    /\ phase = "mounted" /\ pc = "idle"
    /\ sz # size
    /\ ResizeInput
    /\ Commit([Cur EXCEPT !.size = sz,
                          !.roPending = @ \/ (refs /\ observing = "current")])
    /\ UNCHANGED <<phase, pc>>

\* the ResizeObserver callback
ObserverCallback ==
    /\ phase = "mounted" /\ pc = "idle"
    /\ roPending
    /\ Internal
    /\ Commit(handleResize([Cur EXCEPT !.roPending = FALSE]))
    /\ UNCHANGED <<phase, pc>>

\* the store selects another item; the reactive flush starts
MediaChanged(m) ==
    /\ phase = "mounted" /\ pc = "idle"
    /\ m # media
    /\ MediaInput
    /\ Commit([Cur EXCEPT !.media = m])
    /\ pc' = "watch"
    /\ UNCHANGED phase

FlushWatch ==
    /\ pc = "watch"
    /\ Internal
    /\ Commit(watchCurrentImage(Cur))
    /\ pc' = "patch"
    /\ UNCHANGED phase

FlushPatch ==
    /\ pc = "patch"
    /\ Internal
    /\ Commit(patchTemplate(Cur))
    /\ pc' = "effect"
    /\ UNCHANGED phase

FlushEffect ==
    /\ pc = "effect"
    /\ Internal
    /\ Commit(watchEffectInit(Cur))
    /\ pc' = "idle"
    /\ UNCHANGED phase

Unmount ==
    /\ phase = "mounted" /\ pc = "idle"
    /\ Internal
    /\ Commit(onUnmounted([Cur EXCEPT !.refs = FALSE, !.canvas = FreshCanvas,
                                      !.drawn = Blank]))
    /\ phase' = "unmounted"
    /\ UNCHANGED pc

Next ==
    \/ \E pt \in Points(size), deltaY \in DeltaYs :
          nWheel < MaxWheel /\ Wheel(pt, deltaY)
    \/ \E pt \in Points(size) : nPointer < MaxPointer /\ MouseDown(pt)
    \/ \E pt \in Points(size) : nPointer < MaxPointer /\ MouseMove(pt)
    \/ nPointer < MaxPointer /\ MouseUp
    \/ nPointer < MaxPointer /\ MouseLeave
    \/ nPointer < MaxPointer /\ ResetClick
    \/ \E i \in 1..Len(loads) : DecodeLoaded(i)
    \/ \E i \in 1..Len(loads) : DecodeFailed(i)
    \/ AnimationFrame
    \/ \E sz \in Sizes : nResize < MaxResize /\ ContainerResized(sz)
    \/ ObserverCallback
    \/ \E m \in Media : nMedia < MaxMedia /\ MediaChanged(m)
    \/ FlushWatch
    \/ FlushPatch
    \/ FlushEffect
    \/ Unmount

Spec == Init /\ [][Next]_vars

\* The viewer on screen with a container that keeps its size: image "A" is
\* selected when the component mounts, the container never changes size and
\* the component stays mounted.
InitView == Init /\ media = "A" /\ size = <<200, 200>>

ViewStep(maxWheel, maxPointer, maxMedia) ==
    \/ \E pt \in Points(size), deltaY \in DeltaYs :
          nWheel < maxWheel /\ Wheel(pt, deltaY)
    \/ \E pt \in Points(size) : nPointer < maxPointer /\ MouseDown(pt)
    \/ \E pt \in Points(size) : nPointer < maxPointer /\ MouseMove(pt)
    \/ nPointer < maxPointer /\ MouseUp
    \/ nPointer < maxPointer /\ MouseLeave
    \/ nPointer < maxPointer /\ ResetClick
    \/ \E i \in 1..Len(loads) : DecodeLoaded(i)
    \/ AnimationFrame
    \/ ObserverCallback
    \/ \E m \in Media : nMedia < maxMedia /\ MediaChanged(m)
    \/ FlushWatch
    \/ FlushPatch
    \/ FlushEffect

NextView == ViewStep(ViewWheel, ViewPointer, ViewMedia)

SpecView == InitView /\ [][NextView]_vars

\* The same viewer while the user browses through more items and touches the
\* view less.
NextBrowse == ViewStep(BrowseWheel, BrowsePointer, BrowseMedia)

SpecBrowse == InitView /\ [][NextBrowse]_vars

\* The same viewer while the user mostly drags.
NextDrag == ViewStep(DragWheel, DragPointer, DragMedia)

SpecDrag == InitView /\ [][NextDrag]_vars

\* The same viewer in a layout that can give the container another size.
NextLayout ==
    \/ ViewStep(LayoutWheel, LayoutPointer, LayoutMedia)
    \/ \E sz \in Sizes : nResize < LayoutResize /\ ContainerResized(sz)

SpecLayout == InitView /\ [][NextLayout]_vars

\* The same viewer with decodes that can fail, and with the scheduling the
\* browser guarantees: a queued animation frame or observer notification is
\* delivered, a reactive flush runs to its end, a decode succeeds or fails.
NextRender ==
    \/ \E pt \in Points(size), deltaY \in DeltaYs :
          nWheel < RenderWheel /\ Wheel(pt, deltaY)
    \/ \E m \in Media : nMedia < RenderMedia /\ MediaChanged(m)
    \/ \E i \in 1..Len(loads) : DecodeLoaded(i)
    \/ \E i \in 1..Len(loads) : DecodeFailed(i)
    \/ AnimationFrame
    \/ ObserverCallback
    \/ FlushWatch
    \/ FlushPatch
    \/ FlushEffect

\* Weak fairness of the steps the scheduling owes, written out as
\* "infinitely often disabled or infinitely often taken" with each step's
\* enabling condition: each of them, when its guard holds, changes a variable
\* (frames, roPending, loads, pc), so the guard is its enabling condition.
FrameQueued == pc = "idle" /\ frames > 0
ObserverQueued == phase = "mounted" /\ pc = "idle" /\ roPending
DecodePending == pc = "idle" /\ \E i \in 1..Len(loads) : loads[i].state = "pending"
DecodeSettles == \E i \in 1..Len(loads) : DecodeLoaded(i) \/ DecodeFailed(i)

FairFrames == []<>(~FrameQueued) \/ []<><<AnimationFrame>>_vars
FairObserver == []<>(~ObserverQueued) \/ []<><<ObserverCallback>>_vars
FairDecodes == []<>(~DecodePending) \/ []<><<DecodeSettles>>_vars

SpecRender ==
    /\ InitView /\ [][NextRender]_vars
    /\ WF_vars(FlushWatch) /\ WF_vars(FlushPatch)
    /\ []<>(pc # "effect") \/ []<><<FlushEffect>>_vars
    /\ FairFrames /\ FairObserver /\ FairDecodes

\* handleWheel alone: an image on display at one of the zoom levels above,
\* centred, and wheel events of any of the deltas above.
InitWheel ==
    /\ phase = "mounted" /\ pc = "idle"
    /\ media \in Images /\ size = <<200, 200>>
    /\ refs = TRUE
    /\ canvas = [width |-> 200 * DevicePixelRatio,
                 height |-> 200 * DevicePixelRatio, scale |-> DevicePixelRatio]
    /\ isInitialized = TRUE /\ isCanvasInitialized = TRUE
    /\ observing = "current" /\ roPending = FALSE
    /\ zoom \in WheelZooms /\ panX = Zero /\ panY = Zero
    /\ isDragging = FALSE /\ dragStart = ZeroDrag
    /\ isLoading = FALSE /\ loadedImage = media
    /\ imageFit = calculateImageFit([refs |-> TRUE, loadedImage |-> media,
                                     size |-> size, imageFit |-> ZeroFit]).imageFit
    /\ drawn = render([refs |-> TRUE, loadedImage |-> media, imageFit |-> imageFit,
                       zoom |-> zoom, panX |-> Zero, panY |-> Zero,
                       drawn |-> Blank]).drawn
    /\ renderRequested = FALSE /\ frames = 0
    /\ loads = <<[path |-> media, state |-> "resolved"]>>
    /\ nWheel = 0 /\ nPointer = 0 /\ nMedia = 0 /\ nResize = 0
    /\ images = <<>> /\ currentIndex = 0
    /\ batch = NoBatch /\ iz = NoZoom /\ files = NoFiles

NextWheel ==
    \E pt \in Points(size), deltaY \in WheelDeltas :
        nWheel < StepWheel /\ Wheel(pt, deltaY)

SpecWheel == InitWheel /\ [][NextWheel]_vars

\* calculateImageFit alone: a decoded bitmap and a laid-out container of any
\* of the sizes above, and one call of the function.
InitFit ==
    /\ phase = "mounted" /\ pc = "fit"
    /\ media = "A" /\ size \in FitSizes
    /\ refs = TRUE /\ canvas = FreshCanvas /\ drawn = Blank
    /\ isInitialized = TRUE /\ isCanvasInitialized = TRUE
    /\ observing = "current" /\ roPending = FALSE
    /\ zoom = One /\ panX = Zero /\ panY = Zero
    /\ isDragging = FALSE /\ dragStart = ZeroDrag
    /\ isLoading = FALSE /\ loadedImage \in Bitmaps /\ imageFit = ZeroFit
    /\ renderRequested = FALSE /\ frames = 0
    /\ loads = <<>>
    /\ nWheel = 0 /\ nPointer = 0 /\ nMedia = 0 /\ nResize = 0
    /\ images = <<>> /\ currentIndex = 0
    /\ batch = NoBatch /\ iz = NoZoom /\ files = NoFiles

CalculateFit ==
    /\ pc = "fit"
    /\ Internal
    /\ Commit(calculateImageFit(Cur))
    /\ pc' = "fitted"
    /\ UNCHANGED phase

NextFit == CalculateFit

SpecFit == InitFit /\ [][NextFit]_vars

\* ------------------------------------------------------------------------
\* Caption store (stores/captionStore.ts): navigation
\* ------------------------------------------------------------------------
setImages(newImages) ==
    /\ images' = newImages
    /\ currentIndex' = IF Len(newImages) > 0 THEN 0 ELSE -1
    /\ UNCHANGED viewerVars
    /\ UNCHANGED <<batch, iz, files>>

setCurrentIndex(index) ==
    /\ images' = images
    /\ currentIndex' = IF index >= 0 /\ index < Len(images)
                        THEN index ELSE currentIndex
    /\ UNCHANGED viewerVars
    /\ UNCHANGED <<batch, iz, files>>

\* nextImage without the test against the last index
nextImageUnchecked ==
    /\ images' = images
    /\ currentIndex' = currentIndex + 1
    /\ UNCHANGED viewerVars
    /\ UNCHANGED <<batch, iz, files>>

nextImage ==
    /\ images' = images
    /\ currentIndex' = IF currentIndex < Len(images) - 1
                        THEN currentIndex + 1 ELSE currentIndex
    /\ UNCHANGED viewerVars
    /\ UNCHANGED <<batch, iz, files>>

previousImage ==
    /\ images' = images
    /\ currentIndex' = IF currentIndex > 0 THEN currentIndex - 1 ELSE currentIndex
    /\ UNCHANGED viewerVars
    /\ UNCHANGED <<batch, iz, files>>

clearAll ==
    /\ images' = <<>>
    /\ currentIndex' = -1
    /\ UNCHANGED viewerVars
    /\ UNCHANGED <<batch, iz, files>>

\* the store as created by useCaptionStore(), no viewer activity
InitStore == Init /\ media = Video /\ size = <<200, 200>>

NextStore ==
    \/ \E newImages \in ImageLists : setImages(newImages)
    \/ \E index \in Indices : setCurrentIndex(index)
    \/ nextImage
    \/ previousImage
    \/ clearAll

SpecStore == InitStore /\ [][NextStore]_vars

\* ------------------------------------------------------------------------
\* Batch captioning (composables/useBatchCaptioning.ts)
\* ------------------------------------------------------------------------

\* the finally block of batchGenerate
batchFinally(b) ==
    [b EXCEPT !.isActive = FALSE, !.isBatchGenerating = FALSE, !.pc = "idle"]

\* the loop of batchGenerate without the "if (progress.value.cancelled) break"
batchLoopNoCancel(b) ==
    IF b.i < Len(b.items)
    THEN LET b1 == [b EXCEPT !.current = b.i + 1]
         IN  IF b.items[b.i + 1] = "video"
             THEN [b1 EXCEPT !.pc = "capture"]
             ELSE [b1 EXCEPT !.pc = "generate", !.calls = Append(@, b.i)]
    ELSE batchFinally(b)

\* the loop of batchGenerate from its head to the next await: the test of
\* the index and of the cancelled flag, then captureFrame for a video or
\* generateFn for an image
batchLoop(b) ==
    IF b.i < Len(b.items) /\ ~b.cancelled
    THEN LET b1 == [b EXCEPT !.current = b.i + 1]
         IN  IF b.items[b.i + 1] = "video"
             THEN [b1 EXCEPT !.pc = "capture"]
             ELSE [b1 EXCEPT !.pc = "generate", !.calls = Append(@, b.i)]
    ELSE batchFinally(b)

\* batchGenerate(images, mode, generateFn) up to its first await; the host
\* disables its buttons while progress.isActive
BatchGenerate(items) ==
    /\ batch.pc = "idle" /\ batch.nBatch < MaxBatches
    /\ batch' = IF Len(items) = 0
                THEN [batch EXCEPT !.nBatch = @ + 1]
                ELSE batchLoop([batch EXCEPT
                        !.isActive = TRUE, !.current = 0, !.total = Len(items),
                        !.cancelled = FALSE, !.isBatchGenerating = TRUE,
                        !.items = items, !.i = 0, !.calls = <<>>,
                        !.cancelAt = -1, !.nBatch = @ + 1])
    /\ UNCHANGED viewerVars /\ UNCHANGED <<images, currentIndex, iz, files>>

\* cancel(), bound to the Cancel button of the progress banner
BatchCancel ==
    /\ batch.isActive /\ ~batch.cancelled
    /\ batch' = [batch EXCEPT !.cancelled = TRUE, !.cancelAt = batch.i]
    /\ UNCHANGED viewerVars /\ UNCHANGED <<images, currentIndex, iz, files>>

\* captureFrame resolves: generateFn is called with the frame
CaptureResolved ==
    /\ batch.pc = "capture"
    /\ batch' = [batch EXCEPT !.pc = "generate", !.calls = Append(@, batch.i)]
    /\ UNCHANGED viewerVars /\ UNCHANGED <<images, currentIndex, iz, files>>

\* captureFrame rejects: the video is skipped
CaptureRejected ==
    /\ batch.pc = "capture"
    /\ batch' = batchLoop([batch EXCEPT !.i = @ + 1])
    /\ UNCHANGED viewerVars /\ UNCHANGED <<images, currentIndex, iz, files>>

\* generateFn resolves (with a caption or null)
GenerateResolved ==
    /\ batch.pc = "generate"
    /\ batch' = batchLoop([batch EXCEPT !.i = @ + 1])
    /\ UNCHANGED viewerVars /\ UNCHANGED <<images, currentIndex, iz, files>>

\* generateFn rejects: caught for a video, thrown out of the loop for an image
GenerateRejected ==
    /\ batch.pc = "generate"
    /\ batch' = IF batch.items[batch.i + 1] = "video"
                THEN batchLoop([batch EXCEPT !.i = @ + 1])
                ELSE batchFinally(batch)
    /\ UNCHANGED viewerVars /\ UNCHANGED <<images, currentIndex, iz, files>>

InitBatch == Init /\ media = Video /\ size = <<200, 200>>

NextBatch ==
    \/ \E items \in Selections : BatchGenerate(items)
    \/ BatchCancel
    \/ CaptureResolved
    \/ CaptureRejected
    \/ GenerateResolved
    \/ GenerateRejected

\* captureFrame and generateFn are promises that settle
SpecBatch ==
    /\ InitBatch /\ [][NextBatch]_vars
    /\ WF_vars(CaptureResolved \/ CaptureRejected)
    /\ WF_vars(GenerateResolved \/ GenerateRejected)

\* ------------------------------------------------------------------------
\* DOM-transform viewer (composables/useImageZoom.ts), with imageRef and
\* wrapperRef set
\* ------------------------------------------------------------------------
IzMinZoom == I(1)               \* options.minZoom default
IzMaxZoom == I(5)               \* options.maxZoom default
\* wrapperRef.getBoundingClientRect()
WrapperRect == [left |-> 0, top |-> 0, width |-> 200, height |-> 200]
\* naturalWidth x naturalHeight of the images the viewer is given
IzNaturals == {<<400, 300>>, <<400, 800>>}
\* client coordinates and wheel deltas of the events on the wrapper
IzPoints == {<<0, 0>>, <<100, 100>>, <<200, 150>>}
IzDeltas == {-4000, -2000, 2000, 4000}

\* "how the image fits in the container" of handleMouseMove
IzDisplay(natural) ==
    LET containerRatio == Q(WrapperRect.width, WrapperRect.height)
        imageRatio == Q(natural[1], natural[2])
    IN  IF Lt(containerRatio, imageRatio)
        THEN <<I(WrapperRect.width), Div(I(WrapperRect.width), imageRatio)>>
        ELSE <<Mul(I(WrapperRect.height), imageRatio), I(WrapperRect.height)>>

\* imageRef.getBoundingClientRect(): the box of the image centred in the
\* wrapper; the CSS transform's effect on it is left out, the rect only
\* feeds transformOrigin, which no handler reads
IzImageRect(natural) ==
    LET d == IzDisplay(natural)
    IN  [left |-> Div(Sub(I(WrapperRect.width), d[1]), Two),
         top |-> Div(Sub(I(WrapperRect.height), d[2]), Two),
         width |-> d[1], height |-> d[2]]

izIsZoomed(z) == Lt(Q(101, 100), z.zoom)

\* handleWheel of useImageZoom
izHandleWheel(z, clientX, clientY, deltaY) ==
    LET rect == IzImageRect(z.natural)
        x == Sub(I(clientX), rect.left)
        y == Sub(I(clientY), rect.top)
        percentX == Mul(Div(x, rect.width), I(100))
        percentY == Mul(Div(y, rect.height), I(100))
        delta == Mul(I(-deltaY), Q(1, 1000))
        newZoom == MathMin(IzMaxZoom, MathMax(IzMinZoom, Add(z.zoom, delta)))
        z1 == [z EXCEPT !.origin = <<percentX, percentY>>, !.zoom = newZoom]
    IN  IF newZoom = IzMinZoom
        THEN [z1 EXCEPT !.panX = I(0), !.panY = I(0)]
        ELSE z1

\* handleMouseDown of useImageZoom
izHandleMouseDown(z, clientX, clientY) ==
    IF ~izIsZoomed(z) THEN z
    ELSE [z EXCEPT !.isDragging = TRUE,
                   !.dragStart = [x |-> Sub(I(clientX), z.panX),
                                  y |-> Sub(I(clientY), z.panY)]]

\* handleMouseMove of useImageZoom
izHandleMouseMove(z, clientX, clientY) ==
    IF ~z.isDragging THEN z
    ELSE
      LET newPanX == Sub(I(clientX), z.dragStart.x)
          newPanY == Sub(I(clientY), z.dragStart.y)
          d == IzDisplay(z.natural)
          zoomedWidth == Mul(d[1], z.zoom)
          zoomedHeight == Mul(d[2], z.zoom)
          overflowX == MathMax(Zero, Sub(zoomedWidth, I(WrapperRect.width)))
          overflowY == MathMax(Zero, Sub(zoomedHeight, I(WrapperRect.height)))
          maxPanX == Div(overflowX, Two)
          maxPanY == Div(overflowY, Two)
      IN  [z EXCEPT !.panX = MathMax(Neg(maxPanX), MathMin(maxPanX, newPanX)),
                    !.panY = MathMax(Neg(maxPanY), MathMin(maxPanY, newPanY))]

\* handleMouseUp and handleMouseLeave of useImageZoom
izHandleMouseUp(z) == [z EXCEPT !.isDragging = FALSE]

izHandleMouseLeave(z) == [z EXCEPT !.isDragging = FALSE]

\* resetZoom, and the body of watch(currentImage)
izResetZoom(z) ==
    [z EXCEPT !.zoom = I(1), !.origin = <<I(50), I(50)>>,
              !.panX = I(0), !.panY = I(0)]

IzCommit(z) ==
    /\ iz' = z
    /\ UNCHANGED viewerVars /\ UNCHANGED <<images, currentIndex, batch, files>>

IzWheel(pt, deltaY) ==
    /\ iz.nWheel < ZoomWheel
    /\ IzCommit([izHandleWheel(iz, pt[1], pt[2], deltaY) EXCEPT !.nWheel = @ + 1])

IzMouseDown(pt) ==
    /\ iz.nPointer < ZoomPointer
    /\ IzCommit([izHandleMouseDown(iz, pt[1], pt[2]) EXCEPT !.nPointer = @ + 1])

IzMouseMove(pt) ==
    /\ iz.nPointer < ZoomPointer
    /\ IzCommit([izHandleMouseMove(iz, pt[1], pt[2]) EXCEPT !.nPointer = @ + 1])

IzMouseUp ==
    /\ iz.nPointer < ZoomPointer
    /\ IzCommit([izHandleMouseUp(iz) EXCEPT !.nPointer = @ + 1])

IzMouseLeave ==
    /\ iz.nPointer < ZoomPointer
    /\ IzCommit([izHandleMouseLeave(iz) EXCEPT !.nPointer = @ + 1])

\* click on "Reset Zoom", which the host shows while isZoomed
IzReset ==
    /\ iz.nPointer < ZoomPointer
    /\ izIsZoomed(iz)
    /\ IzCommit([izResetZoom(iz) EXCEPT !.nPointer = @ + 1])

\* options.currentImage changes: the watcher resets the view
IzImageChanged(natural) ==
    /\ iz.nImage < ZoomImage
    /\ natural # iz.natural
    /\ IzCommit([izResetZoom(iz) EXCEPT !.natural = natural, !.nImage = @ + 1])

InitZoom == Init /\ media = Video /\ size = <<200, 200>>

NextZoom ==
    \/ \E pt \in IzPoints, deltaY \in IzDeltas : IzWheel(pt, deltaY)
    \/ \E pt \in IzPoints : IzMouseDown(pt)
    \/ \E pt \in IzPoints : IzMouseMove(pt)
    \/ IzMouseUp
    \/ IzMouseLeave
    \/ IzReset
    \/ \E natural \in IzNaturals : IzImageChanged(natural)

SpecZoom == InitZoom /\ [][NextZoom]_vars

\* ------------------------------------------------------------------------
\* Saving captions (composables/useFileOperations.ts, stores/captionStore.ts,
\* main/imageHandler.ts).  A caption is a sequence of characters; files.caps
\* holds, per media file, the store's originalCaption and currentCaption and
\* the content of the caption file on disk.
\* ------------------------------------------------------------------------
RECURSIVE TrimStart(_)
TrimStart(s) == IF s # <<>> /\ Head(s) = " " THEN TrimStart(Tail(s)) ELSE s

RECURSIVE TrimEnd(_)
TrimEnd(s) ==
    IF s # <<>> /\ s[Len(s)] = " " THEN TrimEnd(SubSeq(s, 1, Len(s) - 1)) ELSE s

\* String.prototype.trim
Trim(s) == TrimEnd(TrimStart(s))

\* caption files found when the folder is scanned ('' when there is none)
DiskCaptions == {<<>>, <<"a">>, <<"a", " ">>}

\* texts the user leaves in the caption editor
TypedCaptions == {<<>>, <<"a">>, <<"b">>, <<"b", " ">>}

hasUnsavedChanges(caps) ==
    \E i \in 1..Len(caps) : caps[i].originalCaption # caps[i].currentCaption

modifiedImages(caps) ==
    {i \in 1..Len(caps) : caps[i].originalCaption # caps[i].currentCaption}

markAsSaved(caps) ==
    [i \in 1..Len(caps) |->
        [caps[i] EXCEPT !.currentCaption = Trim(caps[i].currentCaption),
                        !.originalCaption = Trim(caps[i].currentCaption)]]

\* the updates saveCaptions builds: one per modified image, caption trimmed
RECURSIVE updatesFrom(_, _)
updatesFrom(caps, i) ==
    IF i > Len(caps) THEN <<>>
    ELSE (IF caps[i].originalCaption # caps[i].currentCaption
          THEN <<[captionPath |-> i, caption |-> Trim(caps[i].currentCaption)]>>
          ELSE <<>>) \o updatesFrom(caps, i + 1)

\* saveCaptions of the main process: the updates in `written` reach the disk
writeFiles(caps, updates, written) ==
    [i \in 1..Len(caps) |->
        IF \E k \in written : updates[k].captionPath = i
        THEN [caps[i] EXCEPT !.disk =
                 updates[CHOOSE k \in written : updates[k].captionPath = i].caption]
        ELSE caps[i]]

FilesCommit(f) ==
    /\ files' = f
    /\ UNCHANGED viewerVars /\ UNCHANGED <<images, currentIndex, batch, iz>>

\* openFolder: the scan reads every caption file into both captions
OpenFolder(disk) ==
    /\ files.caps = <<>> /\ files.pc = "idle"
    /\ FilesCommit([files EXCEPT !.caps =
          [i \in 1..Len(disk) |-> [originalCaption |-> disk[i],
                                   currentCaption |-> disk[i],
                                   disk |-> disk[i]]]])

\* the caption editor commits its text for the image it shows:
\* store.updateCurrentCaption; nothing blocks it while a save is in flight
UpdateCurrentCaption(i, caption) ==
    /\ files.nEdit < MaxEdit
    /\ i \in 1..Len(files.caps)
    /\ caption # files.caps[i].currentCaption
    /\ FilesCommit([files EXCEPT !.caps[i].currentCaption = caption,
                                 !.during = IF files.pc = "writing"
                                            THEN @ \cup {i} ELSE @,
                                 !.nEdit = @ + 1])

\* saveCaptions up to its await of window.api.saveCaptions
SaveCaptions ==
    /\ files.nSave < MaxSave
    /\ files.pc = "idle"
    /\ hasUnsavedChanges(files.caps)
    /\ FilesCommit([files EXCEPT !.isSaving = TRUE,
                                 !.updates = updatesFrom(files.caps, 1),
                                 !.during = {},
                                 !.pc = "writing",
                                 !.nSave = @ + 1])

\* every write succeeded: the await resumes, markAsSaved, finally
WriteResolved ==
    /\ files.pc = "writing"
    /\ FilesCommit([files EXCEPT
          !.caps = markAsSaved(writeFiles(files.caps, files.updates,
                                          1..Len(files.updates))),
          !.isSaving = FALSE, !.pc = "idle"])

\* some write failed: the others reached the disk, the await throws,
\* catch and finally
WriteRejected(written) ==
    /\ files.pc = "writing"
    /\ written \subseteq 1..Len(files.updates)
    /\ written # 1..Len(files.updates)
    /\ FilesCommit([files EXCEPT
          !.caps = writeFiles(files.caps, files.updates, written),
          !.isSaving = FALSE, !.pc = "idle"])

InitFiles == Init /\ media = Video /\ size = <<200, 200>>

NextFiles ==
    \/ \E disk \in [1..MaxFiles -> DiskCaptions] : OpenFolder(disk)
    \/ \E i \in 1..MaxFiles, caption \in TypedCaptions :
          UpdateCurrentCaption(i, caption)
    \/ SaveCaptions
    \/ WriteResolved
    \/ \E written \in SUBSET (1..MaxFiles) : WriteRejected(written)

SpecFiles == InitFiles /\ [][NextFiles]_vars

TypeOK ==
    /\ phase \in {"mounted", "unmounted"}
    /\ pc \in {"idle", "watch", "patch", "effect"}
    /\ media \in Media /\ size \in Sizes
    /\ refs \in BOOLEAN /\ isInitialized \in BOOLEAN
    /\ isDragging \in BOOLEAN /\ isLoading \in BOOLEAN
    /\ loadedImage \in Images \cup {NoImage}
    /\ frames \in 0..1 /\ renderRequested = (frames = 1)

\* ------------------------------------------------------------------------
\* Properties
\* ------------------------------------------------------------------------
HasImage == loadedImage # NoImage
OnScreen == refs /\ size[1] # 0 /\ size[2] # 0

\* the pan-clamp formula: half the overflow of the zoomed fit over the viewport
MaxPanOf(fsize, z, vsize) == Div(MathMax(Zero, Sub(Mul(fsize, z), I(vsize))), Two)
MaxPanX == MaxPanOf(imageFit.width, zoom, size[1])
MaxPanY == MaxPanOf(imageFit.height, zoom, size[2])

\* C1: zoom never leaves [MIN_ZOOM, MAX_ZOOM], whatever wheel events arrive
\* and however they interleave with the other handlers.
C1_ZoomBounds == Leq(MIN_ZOOM, zoom) /\ Leq(zoom, MAX_ZOOM)

\* a wheel event has pushed the zoom against the upper limit
C1_Witness == nWheel > 0 /\ zoom = MAX_ZOOM /\ HasImage

\* C2: with an image loaded and a container that keeps its non-zero size,
\* |panX| and |panY| never exceed half the overflow of the zoomed image.
C2_PanBounds ==
    (HasImage /\ OnScreen) =>
        /\ Leq(AbsQ(panX), MaxPanX)
        /\ Leq(AbsQ(panY), MaxPanY)

\* C3: whenever zoom is at its minimum, the pan is (0, 0).
C3_RestInvariant == zoom = MIN_ZOOM => (panX = Zero /\ panY = Zero)

\* the render transform of one axis: screen position of image point u
Screen(fpos, fsize, pan, z, u) ==
    Add(Add(Add(fpos, pan), Div(Sub(fsize, Mul(fsize, z)), Two)), Mul(u, z))

\* its inverse: the image point shown at screen position m
Under(fpos, fsize, pan, z, m) ==
    Div(Sub(Sub(Sub(m, fpos), pan), Div(Sub(fsize, Mul(fsize, z)), Two)), z)

\* the pan that keeps image point u at screen position m under zoom z
AnchorPan(fpos, fsize, z, m, u) ==
    Sub(Sub(Sub(m, fpos), Mul(u, z)), Div(Sub(fsize, Mul(fsize, z)), Two))

\* C4: a wheel event that changes the zoom, and whose pan the clamp leaves
\* alone, keeps the image point under the cursor at the cursor.
C4_CursorAnchored ==
    [][\A pt \in Points(size), deltaY \in DeltaYs :
        LET mx == I(pt[1] - RectLeft)
            my == I(pt[2] - RectTop)
            ux == Under(imageFit.x, imageFit.width, panX, zoom, mx)
            uy == Under(imageFit.y, imageFit.height, panY, zoom, my)
        IN  ( /\ Wheel(pt, deltaY)
              /\ HasImage
              /\ zoom' # zoom
              \* the pan the handler solved for was not clamped
              /\ panX' = WheelPan(mx, imageFit.x, imageFit.width, imageFit.scale,
                                  panX, zoom, zoom')
              /\ panY' = WheelPan(my, imageFit.y, imageFit.height, imageFit.scale,
                                  panY, zoom, zoom')
              \* and the anchoring pan lies inside the clamp as well
              /\ Leq(AbsQ(AnchorPan(imageFit.x, imageFit.width, zoom', mx, ux)),
                     MaxPanOf(imageFit.width, zoom', size[1]))
              /\ Leq(AbsQ(AnchorPan(imageFit.y, imageFit.height, zoom', my, uy)),
                     MaxPanOf(imageFit.height, zoom', size[2])) )
            => /\ Screen(imageFit'.x, imageFit'.width, panX', zoom', ux) = mx
               /\ Screen(imageFit'.y, imageFit'.height, panY', zoom', uy) = my
      ]_vars

Settled(i) == loads[i].state # "pending"
AllSettled == \A i \in 1..Len(loads) : Settled(i)
ViewReset == zoom = FitZoom /\ panX = Zero /\ panY = Zero

\* C5: when two loads overlap, the image on display once both decodes have
\* completed is the one of the newer load, i.e. of the current item.
C5_NewestLoadWins ==
    ( /\ phase = "mounted" /\ pc = "idle"
      /\ Len(loads) >= 2 /\ AllSettled
      /\ loads[Len(loads)] = [path |-> media, state |-> "resolved"] )
    => loadedImage = media

C7_DecodeFailure ==
    [][\A i \in 1..Len(loads) :
         DecodeFailed(i) =>
           /\ isLoading' = FALSE
           /\ loads'[i].state = "rejected"
           /\ UNCHANGED <<loadedImage, zoom, panX, panY, imageFit>>
      ]_vars

\* a decode has failed while an earlier image stays on display, zoomed
C7_Witness ==
    /\ \E i \in 1..Len(loads) : loads[i].state = "rejected" /\ loads[i].path = media
    /\ HasImage /\ loadedImage # media /\ ~isLoading
    /\ zoom # FitZoom

\* C8: a decode that completes after the component unmounted is discarded.
C8_DiscardAfterUnmount ==
    [][( /\ phase = "unmounted"
         /\ \E i \in 1..Len(loads) : ~Settled(i) /\ loads'[i].state # "pending" )
        => UNCHANGED <<loadedImage, zoom, panX, panY, imageFit, canvas,
                       renderRequested, frames>>]_vars

\* the canvas buffer is the container size times the device pixel ratio
SurfaceSized(r, sz, c) ==
    /\ r /\ sz[1] # 0 /\ sz[2] # 0
    /\ c = [width |-> sz[1] * DevicePixelRatio, height |-> sz[2] * DevicePixelRatio,
            scale |-> DevicePixelRatio]

\* C9: a decode is started only when the canvas has been sized.
C9_SizedBeforeDecode ==
    [][Len(loads') > Len(loads) => SurfaceSized(refs', size', canvas')]_vars

\* C10: loadImage on an uninitialised viewer starts nothing and changes
\* nothing, both where the watcher calls it and in every such state.
C10_LoadBeforeInitIsNoOp ==
    [][ /\ (pc = "watch" /\ media \in Images /\ ~isInitialized)
            => UNCHANGED <<isLoading, loadedImage, zoom, panX, panY, imageFit,
                           loads, canvas, frames>>
        /\ ~isInitialized => \A path \in Images : loadImage(Cur, path) = Cur
      ]_vars

\* the watcher has just called loadImage before the canvas was initialised
C10_Witness ==
    /\ pc = "patch" /\ nMedia = 1 /\ media \in Images
    /\ ~isInitialized /\ loads = <<>> /\ ~isLoading

\* the fit rect calculateImageFit computes for image img in a container sz
FitRect(img, sz) ==
    calculateImageFit([refs |-> TRUE, loadedImage |-> img, size |-> sz,
                       imageFit |-> ZeroFit]).imageFit

\* a step that runs resetView: the click on the zoom indicator, or img.onload
ResetStep == ResetClick \/ \E i \in 1..Len(loads) : DecodeLoaded(i)

C12_ResetIdempotent == resetView(resetView(Cur)) = resetView(Cur)

\* a state that resetView changes in zoom, pan and pending render
C12_Witness ==
    /\ HasImage /\ OnScreen /\ ~renderRequested
    /\ zoom # FitZoom /\ panX # Zero /\ panY # Zero
    /\ resetView(Cur) # Cur

\* C13: the zoom level stays within the documented range of 100% to 500%
\* whatever wheel events arrive.
C13_DocumentedZoomRange == Leq(I(1), zoom) /\ Leq(zoom, I(5))

\* what a handler of the composable can write
ViewerState == <<zoom, panX, panY, isDragging, dragStart, isLoading,
                 loadedImage, imageFit, renderRequested, frames, canvas,
                 drawn, loads>>

DragCandidate(anchorPan, anchor, c) == Add(anchorPan, I(c - anchor))

\* C15: a mouse move while dragging, with an image loaded, leaves the pan at
\* anchor pan + pointer delta clamped per axis to [-maxPan, +maxPan], with
\* maxPan half the overflow of the zoomed fit over the viewport.
C15_DragClamp ==
    [][\A pt \in Points(size) :
         (MouseMove(pt) /\ isDragging /\ HasImage) =>
           /\ panX' = Clamp(DragCandidate(dragStart.panX, dragStart.x, pt[1]),
                             MaxPanOf(imageFit.width, zoom, size[1]))
           /\ panY' = Clamp(DragCandidate(dragStart.panY, dragStart.y, pt[2]),
                             MaxPanOf(imageFit.height, zoom, size[2]))
      ]_vars

\* a drag has moved the image vertically and asked for more horizontal pan
\* than the limit: panX sits exactly at the limit
C15_Witness ==
    /\ HasImage /\ OnScreen /\ isDragging /\ nPointer = 2
    /\ Lt(FitZoom, zoom) /\ Lt(Zero, MaxPanX)
    /\ \E pt \in Points(size) :
          /\ panY = DragCandidate(dragStart.panY, dragStart.y, pt[2])
          /\ panY # dragStart.panY
          /\ Lt(MaxPanX, DragCandidate(dragStart.panX, dragStart.x, pt[1]))
          /\ panX = MaxPanX

\* the parts of the drag lifecycle the mouse-down, mouse-up and mouse-move
\* handlers decide
DragStartsAndStops ==
    /\ (~isDragging /\ isDragging') =>
          (Lt(FitZoom, zoom) /\ \E pt \in Points(size) : MouseDown(pt))
    /\ MouseUp => ~isDragging'
    /\ \A pt \in Points(size) :
          (MouseMove(pt) /\ ~isDragging) => UNCHANGED <<panX, panY>>

C17_Letterbox ==
    pc = "fitted" =>
      LET nat == NaturalSize(loadedImage)
          vw == I(size[1])
          vh == I(size[2])
          imageRatio == Q(nat[1], nat[2])
          f == imageFit
      IN  /\ IF nat[1] * size[2] > size[1] * nat[2]
             THEN f.width = vw /\ f.height = Div(vw, imageRatio)
             ELSE f.height = vh /\ f.width = Mul(vh, imageRatio)
          /\ Leq(f.width, vw) /\ Leq(f.height, vh)
          /\ f.x = Div(Sub(vw, f.width), Two)
          /\ f.y = Div(Sub(vh, f.height), Two)
          /\ Mul(f.width, I(nat[2])) = Mul(f.height, I(nat[1]))
          /\ (loadedImage = "A" /\ size = <<200, 200>>)
                => (f.width = I(200) /\ f.height = I(150))
          /\ (loadedImage = "B" /\ size = <<200, 200>>)
                => (f.width = I(100) /\ f.height = I(200))

\* the 400x300 image has been fitted into the 200x200 viewport by its width
C17_Witness ==
    /\ pc = "fitted" /\ loadedImage = "A" /\ size = <<200, 200>>
    /\ imageFit.width = I(200) /\ imageFit.height = I(150)
    /\ imageFit.x = Zero /\ imageFit.y = I(25)

ZeroSize == size[1] = 0 \/ size[2] = 0

\* a handleResize that finds the container without size changes nothing
ZeroSizeResizeSkipped ==
    /\ (refs /\ ZeroSize) => handleResize(Cur) = Cur
    /\ (ObserverCallback /\ ZeroSize) =>
          UNCHANGED <<canvas, drawn, imageFit, zoom, panX, panY,
                      renderRequested, frames>>

\* C18: a handleResize on a container without size is skipped (buffer size,
\* transform, imageFit, zoom and pan unchanged, no render scheduled), and
\* no frame draws the image (a non-empty rect) while the container has no
\* size: rendering waits for a resize with a size.
C18_NoRenderWithoutSize ==
    [][ /\ ZeroSizeResizeSkipped
        /\ (AnimationFrame /\ refs /\ ZeroSize) =>
              \/ UNCHANGED drawn
              \/ drawn'.img = NoImage
              \/ drawn'.width = Zero \/ drawn'.height = Zero ]_vars

\* C18, amended: the skipped handleResize changes nothing and schedules no
\* render; renders other handlers schedule still run.
C18_ResizeSkipped == [][ZeroSizeResizeSkipped]_vars

\* the container has collapsed under a sized canvas showing an image, and
\* the observer's handleResize has been skipped
C18_Witness ==
    /\ phase = "mounted" /\ pc = "idle" /\ nResize = 1
    /\ refs /\ ZeroSize /\ observing = "current" /\ ~roPending
    /\ HasImage /\ canvas.scale = DevicePixelRatio /\ canvas.width > 0
    /\ imageFit.width # Zero

\* C19: at most one animation frame is pending; requestRender calls made
\* while it is pending add none, and the frame clears the flag when it runs,
\* so that the next requestRender queues a new frame.
C19_RenderCoalescing ==
    [][ /\ frames <= 1 /\ frames' <= 1
        /\ renderRequested = (frames = 1)
        /\ renderRequested' = (frames' = 1)
        /\ requestRender(requestRender(Cur)).frames = 1
        /\ renderRequested => requestRender(Cur) = Cur
        /\ AnimationFrame => (frames' = 0 /\ ~renderRequested')
        /\ ~renderRequested =>
              (requestRender(Cur).frames = 1 /\ requestRender(Cur).renderRequested)
      ]_vars

\* the frame queued by a load is still pending after a wheel event asked
\* for a render as well
C19_Witness ==
    /\ phase = "mounted" /\ refs /\ HasImage
    /\ nWheel = 1 /\ zoom # FitZoom
    /\ frames = 1 /\ renderRequested /\ drawn = Blank

ValidIndex(idx, list) == list # <<>> => (idx >= 0 /\ idx < Len(list))

\* C20: the store's currentIndex is a valid index whenever the list is not
\* empty, is -1 after setImages([]) and clearAll, and is left alone by
\* nextImage at the last index, previousImage at index 0 and setCurrentIndex
\* with an index out of range.
C20_StoreNavigation ==
    [][ /\ ValidIndex(currentIndex, images)
        /\ ValidIndex(currentIndex', images')
        /\ (setImages(<<>>) \/ clearAll) => currentIndex' = -1
        /\ (nextImage /\ currentIndex = Len(images) - 1) => UNCHANGED currentIndex
        /\ (previousImage /\ currentIndex = 0) => UNCHANGED currentIndex
        /\ \A index \in Indices :
              (setCurrentIndex(index) /\ ~(index >= 0 /\ index < Len(images)))
                => UNCHANGED currentIndex
      ]_vars

\* navigation has reached the last item of a full list
C20_Witness ==
    /\ Len(images) = MaxImages /\ currentIndex = Len(images) - 1
    /\ images[1] # images[2]

\* C22: a step in which handleResize runs for a non-zero container with an
\* image loaded and zoom > 1 leaves panX and panY within the clamp computed
\* from the recomputed imageFit and the container size.
C22_PanClampedAcrossResize ==
    [][ (ObserverCallback /\ OnScreen /\ HasImage /\ Lt(FitZoom, zoom)) =>
          /\ Leq(AbsQ(panX'), MaxPanOf(imageFit'.width, zoom', size'[1]))
          /\ Leq(AbsQ(panY'), MaxPanOf(imageFit'.height, zoom', size'[2]))
      ]_vars

\* C23: with an image loaded, the canvas in a container of non-zero size,
\* imageFit is the fit rect of the loaded image in the current container
\* size.  Stated for the states at rest only: no reactive flush running, no
\* resize notification waiting, every decode completed and the loaded image
\* the current item.
C23_FitCurrent ==
    (/\ HasImage /\ OnScreen
     /\ pc = "idle" /\ ~roPending
     /\ AllSettled /\ loadedImage = media) =>
        imageFit = FitRect(loadedImage, size)

\* the wheel events that differ from deltaY in magnitude only
SameDirection(deltaY) == {d \in WheelDeltas : (d < 0) = (deltaY < 0) /\ (d > 0) = (deltaY > 0)}

\* C24 (as stated): the zoom after a wheel event depends on the direction of
\* deltaY only, not on its magnitude; a negative deltaY never decreases the
\* zoom and a positive deltaY never increases it.
C24_FixedZoomStep ==
    [][ \A pt \in Points(size), deltaY \in WheelDeltas :
          Wheel(pt, deltaY) =>
            /\ \A d \in SameDirection(deltaY) : zoom' = handleWheel(Cur, pt[1], pt[2], d).zoom
            /\ deltaY < 0 => Leq(zoom, zoom')
            /\ deltaY > 0 => Leq(zoom', zoom)
      ]_vars

\* C24 (amended): a wheel event on a loaded image changes the zoom by
\* -deltaY / 1000 and clamps the result to [0.1, 10]; a negative deltaY never
\* decreases the zoom and a positive deltaY never increases it.
C24_ProportionalZoomStep ==
    [][ \A pt \in Points(size), deltaY \in WheelDeltas :
          (Wheel(pt, deltaY) /\ HasImage /\ refs) =>
            /\ zoom' = MathMax(Q(1, 10), MathMin(I(10), Sub(zoom, Q(deltaY, 1000))))
            /\ deltaY < 0 => Leq(zoom, zoom')
            /\ deltaY > 0 => Leq(zoom', zoom)
      ]_vars

\* one pixel of wheel movement has moved the zoom from 1 by a thousandth
C24_Witness == nWheel = 1 /\ zoom = Q(1001, 1000) /\ HasImage

\* C26: isLoading is true exactly while some decode started by loadImage has
\* neither succeeded nor failed.
C26_LoadingTracksDecodes ==
    isLoading <=> (\E i \in 1..Len(loads) : loads[i].state = "pending")

\* C27: while isDragging is true the zoom is above 1 and an image is loaded.
C27_DragOnlyWhileZoomed == isDragging => (Lt(FitZoom, zoom) /\ HasImage)

\* C28: while no image is loaded, a wheel, mouse-down or mouse-move event
\* leaves zoom, panX, panY and isDragging as they were.
C28_NoInteractionWithoutImage ==
    [][ (/\ loadedImage = NoImage
         /\ \/ \E pt \in Points(size), deltaY \in DeltaYs : Wheel(pt, deltaY)
            \/ \E pt \in Points(size) : MouseDown(pt)
            \/ \E pt \in Points(size) : MouseMove(pt))
        => UNCHANGED <<zoom, panX, panY, isDragging>>
      ]_vars

\* what render() draws for the current loadedImage, zoom, pan and imageFit
Rendered ==
    render([refs |-> TRUE, loadedImage |-> loadedImage, imageFit |-> imageFit,
            zoom |-> zoom, panX |-> panX, panY |-> panY, drawn |-> Blank]).drawn

\* the surface shows the current image at the current view, or nothing when
\* no image is loaded
SurfaceCurrent ==
    IF refs /\ HasImage THEN drawn = Rendered ELSE drawn = Blank

\* C29: with animation frames, observer notifications and decodes delivered,
\* from some point on the surface shows the loaded image at the current zoom,
\* pan and fit, and shows nothing when no image is loaded.
C29_EventuallyRendered == <>[]SurfaceCurrent

\* generateFn is invoked in this step
GenerateFnCalled == Len(batch'.calls) > Len(batch.calls)

\* C21: once cancel() has been called during a batch, generateFn is invoked
\* for no item after the one that was in flight, and the batch ends with
\* progress.isActive and store.isBatchGenerating both false.
C21_BatchCancellable ==
    /\ [][ (batch.cancelled /\ GenerateFnCalled) =>
             batch'.calls[Len(batch'.calls)] <= batch.cancelAt ]_vars
    /\ (batch.cancelled /\ batch.isActive)
          ~> (batch.pc = "idle" /\ ~batch.isActive /\ ~batch.isBatchGenerating)

\* a batch of three items that cancel() has ended after the first
C21_Witness ==
    /\ batch.cancelled /\ batch.pc = "idle" /\ ~batch.isActive
    /\ Len(batch.items) = 3 /\ batch.calls = <<0>> /\ batch.cancelAt = 0

\* the bound of the pan of useImageZoom on one axis
IzMaxPan(display, z, wrapper) ==
    Div(MathMax(Zero, Sub(Mul(display, z), I(wrapper))), Two)

\* C25: in useImageZoom, |panX| and |panY| never exceed half the overflow of
\* the zoomed image over the wrapper at the current zoom.
C25_DomPanBounds ==
    /\ Leq(AbsQ(iz.panX), IzMaxPan(IzDisplay(iz.natural)[1], iz.zoom, WrapperRect.width))
    /\ Leq(AbsQ(iz.panY), IzMaxPan(IzDisplay(iz.natural)[2], iz.zoom, WrapperRect.height))

\* C30: when no save is in flight, an image whose caption was edited while
\* the last save was awaiting the disk write is marked saved
\* (originalCaption = currentCaption) only if the caption file on disk holds
\* its current caption
C30_NoEditLostBySave ==
    files.pc = "idle" =>
        \A i \in files.during :
            files.caps[i].originalCaption = files.caps[i].currentCaption
                => files.caps[i].disk = files.caps[i].currentCaption

====
